---------------------------- MODULE Spec2Model ----------------------------
(***************************************************************************)
(* Payment lifecycle and attendee check-in of the event-management         *)
(* backend (GradleD/passiyo-be).                                           *)
(*                                                                         *)
(* Every request handler is an async function.  A handler runs without     *)
(* interruption from one await to the next, so each action below is one    *)
(* such segment: it starts when the awaited collaborator (database or      *)
(* payment gateway) answers and ends when the handler issues its next      *)
(* call or responds.  A database statement takes effect in the action      *)
(* that models its answer.  Reads of tables that no modelled handler       *)
(* writes (events, ticket_types) are folded into the neighbouring segment. *)
(* The column updated_at is not modelled.                                  *)
(***************************************************************************)
EXTENDS Integers, FiniteSets, Sequences, TLC

(***************************************************************************)
(* Bounds                                                                  *)
(***************************************************************************)
\* Payment rows that the insert handlers may create in one behaviour.
MaxPayments == 2
\* Timestamps (new Date()) that check-in handlers may take in one behaviour.
MaxClock == 3
\* Requests that arrive in one behaviour.
MaxRequests == 4

\* The request handlers that may be in flight at the same time.
Slots == {1, 2}
\* Payment ids the gateway hands out.
PaymentIds == {"pay_1", "pay_2"}
\* Ticket prices (ticket_types.price).
Prices == {499}

NULL == "NULL"
NoOrder == <<NULL, 0>>
NoRow == [status |-> "absent"]

(***************************************************************************)
(* Signatures.  An HMAC is modelled as the pair of key and message: two    *)
(* HMACs are equal exactly when key and message are equal.                 *)
(***************************************************************************)
RAZORPAY_KEY_SECRET == "key_secret"
RAZORPAY_WEBHOOK_SECRET == "webhook_secret"
ForgedKey == "forged_key"

createHmac(key, data) == <<key, data>>
NoSignature == <<NULL, NULL>>

\* The signatures a caller may present for (orderId, paymentId): the one
\* the gateway issues, one made without the secret, and none at all.
SignatureInputs(orderId, paymentId) ==
    { createHmac(RAZORPAY_KEY_SECRET, <<orderId, paymentId>>),
      createHmac(ForgedKey, <<orderId, paymentId>>),
      NoSignature }

\* process.env.RAZORPAY_KEY_SECRET: set, or missing from the environment.
KeySecretSettings == {RAZORPAY_KEY_SECRET, NULL}

\* verifyPayment with the secret as the environment gives it: whether the
\* call threw, and the value it returned.  createHmac throws for a missing
\* key inside the try block, and the catch block returns false.
verifyPaymentUnder(secret, orderId, paymentId, signature) ==
    IF secret = NULL
    THEN [threw |-> FALSE, value |-> FALSE]
    ELSE [threw |-> FALSE,
          value |-> createHmac(secret, <<orderId, paymentId>>) = signature]

verifyPayment(orderId, paymentId, signature) ==
    verifyPaymentUnder(RAZORPAY_KEY_SECRET, orderId, paymentId,
                       signature).value

(***************************************************************************)
(* State                                                                   *)
(***************************************************************************)
VARIABLES
    payments,    \* table payments: row id -> row, NoRow before the insert
    req,         \* payment request handlers in flight, one per slot
    started,     \* requests that have arrived so far
    attendees,   \* table attendees: attendee id -> row
    creq,        \* check-in request handlers in flight, one per slot
    now          \* clock read by new Date()

vars == <<payments, req, started, attendees, creq, now>>

\* What the payment handlers leave alone, and what the check-in handlers do.
checkInVars == <<attendees, creq, now>>
paymentVars == <<payments, req>>

PayRowIds == 1 .. MaxPayments

\* receipt = `order_${uuidv4()}`: a fresh value for every inserted row.
Receipt(id) == <<"order", id>>

\* order_id values a confirmation may name: the receipts of the rows.
OrderIds == {Receipt(id) : id \in PayRowIds}

Statuses == {"created", "payment_link_created", "payment_link_sent",
             "captured", "failed", "refunded"}

IdleReq == [kind |-> "none", pc |-> "idle", order_id |-> NoOrder,
            payment_id |-> NULL, signature |-> NoSignature, row |-> 0,
            amount |-> 0, err |-> NULL, seen |-> NULL, http |-> 0,
            gw |-> FALSE]

\* A handler may start in a slot that holds no handler in flight; handlers
\* are interchangeable, so a new one takes the first such slot.
Free(s) ==
    /\ req[s].pc \in {"idle", "done"}
    /\ \A t \in Slots : req[t].pc \in {"idle", "done"} => s <= t

\* A request arrives and its handler starts in slot s.
Arrive(s) ==
    /\ Free(s)
    /\ started < MaxRequests
    /\ started' = started + 1

\* The handler has answered: the slot keeps what kind of request it was,
\* the HTTP status sent, the row and the payment it was about, the status
\* it found there and whether it had the gateway refund.
Respond(r, code) ==
    [IdleReq EXCEPT !.kind = r.kind, !.pc = "done", !.http = code,
                    !.row = r.row, !.payment_id = r.payment_id,
                    !.seen = r.seen, !.gw = r.gw]

Rows == {id \in PayRowIds : payments[id] # NoRow}

(***************************************************************************)
(* Payment service: processSuccessfulPayment                               *)
(***************************************************************************)
ErrInvalidSignature == "Invalid payment signature"
ErrGateway == "gateway request failed"
\* The gateway did not answer in time: the outcome of the payment is not
\* known.
ErrGatewayTimeout == "gateway request timed out"
ErrDatabase == "database request failed"
\* .single() when the statement returned no row or several.
ErrNoSingleRow == "JSON object requested, multiple (or no) rows returned"
ErrPaymentFailed == "payment failed at gateway"

\* A capture update that is also conditioned on the status it leaves, the
\* form a precondition-gated write would take.
CaptureWhereGated(row, order_id) ==
    row.order_id = order_id /\ row.status \in {"created", "payment_link_sent"}

\* A capture update without its WHERE clause.
CaptureWhereAnyOrder(row, order_id) == TRUE

\* WHERE clause of the capture update: .eq('order_id', order_id)
CaptureWhere(row, order_id) == row.order_id = order_id

\* A catch block that marks only payments still awaiting their capture.
FailedWhereGated(row, order_id) ==
    row.order_id = order_id /\ row.status \in {"created", "payment_link_sent"}

\* A catch block whose update has no WHERE clause.
FailedWhereAnyOrder(row, order_id) == TRUE

\* WHERE clause of the catch block's update: .eq('order_id', order_id)
FailedWhere(row, order_id) == row.order_id = order_id

\* A capture update that also takes the amount from the gateway's payment,
\* which is in paise.
CaptureSetWithAmount(row, payment_id) ==
    [row EXCEPT !.status = "captured", !.payment_id = payment_id,
                !.amount = row.amount * 100]

\* A capture update that leaves payment_id out of its SET clause.
CaptureSetStatusOnly(row, payment_id) ==
    [row EXCEPT !.status = "captured"]

\* SET clause of the capture update.
CaptureSet(row, payment_id) ==
    [row EXCEPT !.status = "captured", !.payment_id = payment_id]

\* SET clause of the catch block's update.
FailedSet(row, message) ==
    [row EXCEPT !.status = "failed", !.error_message = message]

\* processSuccessfulPayment up to its first await: the signature check,
\* then either the gateway fetch is issued or the catch block is entered.
PspEnter(r) ==
    IF verifyPayment(r.order_id, r.payment_id, r.signature)
    THEN [r EXCEPT !.pc = "psp_fetch"]
    ELSE [r EXCEPT !.pc = "psp_failed", !.err = ErrInvalidSignature]

\* POST /payments/verify
StartVerify(s, order_id, payment_id, signature) ==
    /\ Arrive(s)
    /\ LET r == [IdleReq EXCEPT !.kind = "verify", !.order_id = order_id,
                                !.payment_id = payment_id,
                                !.signature = signature]
       IN  req' = [req EXCEPT ![s] =
                     IF signature = NoSignature
                     THEN Respond(r, 400)
                     ELSE PspEnter(r)]
    /\ UNCHANGED <<payments, checkInVars>>

\* razorpay.payments.fetch(payment_id) answers.
PspFetch(s, gatewayOk) ==
    /\ req[s].pc = "psp_fetch"
    /\ req' = [req EXCEPT ![s] =
                 IF gatewayOk
                 THEN [@ EXCEPT !.pc = "psp_update"]
                 ELSE [@ EXCEPT !.pc = "psp_failed", !.err = ErrGateway]]
    /\ UNCHANGED <<payments, started, checkInVars>>

\* razorpay.payments.fetch(payment_id) rejects because no answer came in
\* time; the handler has one catch block for every error.
PspFetchTimeout(s) ==
    /\ req[s].pc = "psp_fetch"
    /\ req' = [req EXCEPT ![s] =
                 [@ EXCEPT !.pc = "psp_failed", !.err = ErrGatewayTimeout]]
    /\ UNCHANGED <<payments, started, checkInVars>>

\* The capture update answers: update(...).eq('order_id', ...).select().single()
PspUpdate(s, dbOk) ==
    /\ req[s].pc = "psp_update"
    /\ LET r == req[s]
           hit == {id \in Rows : CaptureWhere(payments[id], r.order_id)}
       IN  IF ~dbOk
           THEN /\ req' = [req EXCEPT ![s] =
                             [r EXCEPT !.pc = "psp_failed", !.err = ErrDatabase]]
                /\ UNCHANGED payments
           ELSE IF Cardinality(hit) # 1
           THEN /\ req' = [req EXCEPT ![s] =
                             [r EXCEPT !.pc = "psp_failed",
                                       !.err = ErrNoSingleRow]]
                /\ UNCHANGED payments
           ELSE /\ payments' = [id \in PayRowIds |->
                                  IF id \in hit
                                  THEN CaptureSet(payments[id], r.payment_id)
                                  ELSE payments[id]]
                /\ req' = [req EXCEPT ![s] =
                             Respond([r EXCEPT
                                        !.seen = payments[CHOOSE id \in hit : TRUE].status,
                                        !.row = CHOOSE id \in hit : TRUE],
                                     200)]
    /\ UNCHANGED <<started, checkInVars>>

\* The catch block: the update to failed answers (its error is not looked
\* at), then the error is rethrown and the controller answers with it.
PspFailed(s, dbOk) ==
    /\ req[s].pc = "psp_failed"
    /\ LET r == req[s]
           hit == {id \in Rows : FailedWhere(payments[id], r.order_id)}
       IN  /\ payments' = [id \in PayRowIds |->
                             IF dbOk /\ id \in hit
                             THEN FailedSet(payments[id], r.err)
                             ELSE payments[id]]
           /\ req' = [req EXCEPT ![s] = Respond(r, 500)]
    /\ UNCHANGED <<started, checkInVars>>

(***************************************************************************)
(* Payment controller: handleWebhook                                       *)
(***************************************************************************)
WebhookEvents == {"payment.captured", "payment.failed", "order.paid"}

\* req.body: the event and, of payload.payment.entity, order_id, id and
\* signature.
WebhookBody(event, order_id, payment_id, signature) ==
    <<event, order_id, payment_id, signature>>

\* The X-Razorpay-Signature header values a sender may present.
HeaderInputs(body) ==
    { createHmac(RAZORPAY_WEBHOOK_SECRET, body), createHmac(ForgedKey, body) }

\* A handler that takes every header for genuine.
WebhookSignatureUnchecked(body, header) == TRUE

\* signature === expectedSignature, the HMAC of the body under the
\* webhook secret.
WebhookSignatureMatches(body, header) ==
    createHmac(RAZORPAY_WEBHOOK_SECRET, body) = header

\* A switch whose default case handles the event as a failed payment.
WebhookCaseFailedByDefault(event) ==
    IF event = "payment.captured" THEN "payment.captured"
    ELSE "payment.failed"

\* switch (event): the case that runs.
WebhookCase(event) ==
    IF event \in {"payment.captured", "payment.failed"} THEN event
    ELSE "default"

\* POST /payments/webhook
StartWebhook(s, body, header) ==
    /\ Arrive(s)
    /\ LET event == body[1]
           r == [IdleReq EXCEPT !.kind = event,
                                !.order_id = body[2],
                                !.payment_id = body[3],
                                !.signature = body[4]]
       IN  req' = [req EXCEPT ![s] =
                     IF ~WebhookSignatureMatches(body, header)
                     THEN Respond(r, 401)
                     ELSE IF WebhookCase(event) = "payment.captured"
                     THEN PspEnter(r)
                     ELSE IF WebhookCase(event) = "payment.failed"
                     THEN [r EXCEPT !.pc = "wh_failed", !.order_id = NoOrder,
                                    !.signature = NoSignature]
                     ELSE Respond(r, 200)]
    /\ UNCHANGED <<payments, checkInVars>>

\* WHERE clause of the payment.failed update: .eq('payment_id', entity.id)
WebhookFailedWhere(row, payment_id) == row.payment_id = payment_id

\* The payment.failed update answers, then the webhook is acknowledged.
WebhookFailed(s, dbOk) ==
    /\ req[s].pc = "wh_failed"
    /\ LET r == req[s]
           hit == {id \in Rows : WebhookFailedWhere(payments[id], r.payment_id)}
       IN  /\ payments' = [id \in PayRowIds |->
                             IF dbOk /\ id \in hit
                             THEN FailedSet(payments[id], ErrPaymentFailed)
                             ELSE payments[id]]
           /\ req' = [req EXCEPT ![s] = Respond(r, 200)]
    /\ UNCHANGED <<started, checkInVars>>

(***************************************************************************)
(* Payment controller: createPaymentOrder, createTicketPaymentLink         *)
(***************************************************************************)
\* refund.id: the id the gateway gives the refund of a payment.
RefundId(payment_id) == <<"rfnd", payment_id>>

\* The id the database gives the next inserted row.
NextRowId == CHOOSE id \in PayRowIds :
                /\ payments[id] = NoRow
                /\ \A j \in PayRowIds : j < id => payments[j] # NoRow

CanInsert == \E id \in PayRowIds : payments[id] = NoRow

\* The columns both inserts fill from the request and the ticket type;
\* one event, attendee, ticket type and currency stand for all.
NewRow(order_id, status, price) ==
    [order_id |-> order_id, payment_id |-> NULL, status |-> status,
     error_message |-> NULL, refund_id |-> RefundId(NULL), amount |-> price,
     currency |-> "INR", event_id |-> "ev_1", attendee_id |-> "att_1",
     ticket_type_id |-> "tt_1"]

\* POST /payments/orders up to the answer of the insert: the event and the
\* ticket type are looked up, then the row is inserted.
CreateOrderInsert(s, found, price, dbOk) ==
    /\ Arrive(s)
    /\ CanInsert
    /\ LET r == [IdleReq EXCEPT !.kind = "create_order", !.amount = price]
       IN  IF ~found
           THEN /\ req' = [req EXCEPT ![s] = Respond(r, 404)]
                /\ UNCHANGED payments
           ELSE IF ~dbOk
           THEN /\ req' = [req EXCEPT ![s] = Respond(r, 500)]
                /\ UNCHANGED payments
           ELSE /\ payments' = [payments EXCEPT ![NextRowId] =
                                  NewRow(Receipt(NextRowId), "created", price)]
                /\ req' = [req EXCEPT ![s] =
                             [r EXCEPT !.pc = "co_gateway", !.row = NextRowId]]
    /\ UNCHANGED checkInVars

\* createOrder answers: razorpay.orders.create, or the amount is refused.
CreateOrderGateway(s, gatewayOk) ==
    /\ req[s].pc = "co_gateway"
    /\ req' = [req EXCEPT ![s] =
                 IF req[s].amount > 0 /\ gatewayOk
                 THEN Respond(@, 201)
                 ELSE Respond([@ EXCEPT !.err = ErrGateway], 500)]
    /\ UNCHANGED <<payments, started, checkInVars>>

\* POST .../payment-link up to the answer of the insert.
CreateLinkInsert(s, found, price, dbOk) ==
    /\ Arrive(s)
    /\ CanInsert
    /\ LET r == [IdleReq EXCEPT !.kind = "create_link", !.amount = price]
       IN  IF ~found
           THEN /\ req' = [req EXCEPT ![s] = Respond(r, 404)]
                /\ UNCHANGED payments
           ELSE IF ~dbOk
           THEN /\ req' = [req EXCEPT ![s] = Respond(r, 500)]
                /\ UNCHANGED payments
           ELSE /\ payments' = [payments EXCEPT ![NextRowId] =
                                  NewRow(NoOrder, "payment_link_created", price)]
                /\ req' = [req EXCEPT ![s] =
                             [r EXCEPT !.pc = "cl_gateway", !.row = NextRowId]]
    /\ UNCHANGED checkInVars

\* createPaymentLink answers: razorpay.paymentLink.create
CreateLinkGateway(s, gatewayOk) ==
    /\ req[s].pc = "cl_gateway"
    /\ req' = [req EXCEPT ![s] =
                 IF gatewayOk
                 THEN [@ EXCEPT !.pc = "cl_update"]
                 ELSE Respond([@ EXCEPT !.err = ErrGateway], 500)]
    /\ UNCHANGED <<payments, started, checkInVars>>

\* The update to payment_link_sent answers (.eq('id', payment.id)); its
\* error is not looked at.
CreateLinkUpdate(s, dbOk) ==
    /\ req[s].pc = "cl_update"
    /\ payments' = [payments EXCEPT ![req[s].row] =
                      IF dbOk THEN [@ EXCEPT !.status = "payment_link_sent"]
                      ELSE @]
    /\ req' = [req EXCEPT ![s] = Respond(@, 201)]
    /\ UNCHANGED <<started, checkInVars>>

(***************************************************************************)
(* Refund: refundPaymentController, refundPayment                          *)
(***************************************************************************)
\* Amounts a refund request may carry; 0 stands for no amount in the body.
RefundAmounts == {0, 100}

\* An eligibility test that would let a refunded payment through again.
RefundEligibleOnceMore(row) == row.status \in {"captured", "refunded"}

\* "Check if payment is eligible for refund"
RefundEligible(row) == row.status = "captured"

\* A handler that passes the amount of the request on as it is.
refundAmountAsGiven(amount, row) == amount

\* const refundAmount = amount || payment.amount
refundAmount(amount, row) == IF amount # 0 THEN amount ELSE row.amount

\* POST /payments/:paymentId/refund up to the answer of the select.
RefundRead(s, id, amount, dbOk) ==
    /\ Arrive(s)
    /\ LET r == [IdleReq EXCEPT !.kind = "refund", !.row = id,
                                !.amount = amount]
           row == payments[id]
       IN  req' = [req EXCEPT ![s] =
                     IF ~dbOk \/ row = NoRow
                     THEN Respond(r, 404)
                     ELSE IF ~RefundEligible(row)
                     THEN Respond([r EXCEPT !.seen = row.status], 400)
                     ELSE [r EXCEPT !.pc = "rf_gateway",
                                    !.seen = row.status,
                                    !.payment_id = row.payment_id,
                                    !.amount = refundAmount(amount, row)]]
    /\ UNCHANGED <<payments, checkInVars>>

\* A refund that goes on to the update whatever the gateway answered.
RefundGatewayOptimistic(s, gatewayOk) ==
    /\ req[s].pc = "rf_gateway"
    /\ req' = [req EXCEPT ![s] = [@ EXCEPT !.pc = "rf_update",
                                           !.gw = gatewayOk]]
    /\ UNCHANGED <<payments, started, checkInVars>>

\* razorpay.payments.refund answers.
RefundGateway(s, gatewayOk) ==
    /\ req[s].pc = "rf_gateway"
    /\ req' = [req EXCEPT ![s] =
                 IF gatewayOk
                 THEN [@ EXCEPT !.pc = "rf_update", !.gw = TRUE]
                 ELSE Respond([@ EXCEPT !.err = ErrGateway], 500)]
    /\ UNCHANGED <<payments, started, checkInVars>>

\* WHERE clause of the refund update: .eq('payment_id', paymentId)
RefundWhere(row, payment_id) == row.payment_id = payment_id

\* The update to refunded answers; its error is not looked at.
RefundUpdate(s, dbOk) ==
    /\ req[s].pc = "rf_update"
    /\ LET r == req[s]
           hit == {id \in Rows : RefundWhere(payments[id], r.payment_id)}
       IN  /\ payments' = [id \in PayRowIds |->
                             IF dbOk /\ id \in hit
                             THEN [payments[id] EXCEPT
                                     !.status = "refunded",
                                     !.refund_id = RefundId(r.payment_id)]
                             ELSE payments[id]]
           /\ req' = [req EXCEPT ![s] = Respond(r, 200)]
    /\ UNCHANGED <<started, checkInVars>>

(***************************************************************************)
(* QR codes: verifyQRCode                                                  *)
(***************************************************************************)
AttendeeIds == {"att_1"}
EventIds == {"ev_1", "ev_2"}
Users == {"user_1", "user_2"}

\* The clock counts hours; Date.now() is in milliseconds.
HourMs == 60 * 60 * 1000
DateNow == now * HourMs
FirstHour == 2 * 24

maxAge == 24 * 60 * 60 * 1000

\* qrData after JSON.parse: a text that does not parse, the JSON text null,
\* whose fields cannot be read, or a value whose absent fields read as NULL
\* (attendeeId, eventId) or 0 (timestamp); a JSON number, string or array
\* is such a value with every field absent.
Unparseable == [json |-> FALSE, object |-> FALSE, attendeeId |-> NULL,
                eventId |-> NULL, timestamp |-> 0]
JsonNull == [json |-> TRUE, object |-> FALSE, attendeeId |-> NULL,
             eventId |-> NULL, timestamp |-> 0]
QrPayload(attendeeId, eventId, timestamp) ==
    [json |-> TRUE, object |-> TRUE, attendeeId |-> attendeeId,
     eventId |-> eventId, timestamp |-> timestamp]

\* A decoder that takes every code for valid.
verifyQRCodeTrusting(qrData, dateNow) == [isValid |-> TRUE, error |-> NULL]

\* A freshness test that already refuses a code of exactly maxAge.
verifyQRCodeStrict(qrData, dateNow) ==
    IF ~qrData.json
    THEN [isValid |-> FALSE, error |-> "Unexpected token"]
    ELSE IF ~qrData.object
    THEN [isValid |-> FALSE, error |-> "Cannot read properties of null"]
    ELSE IF qrData.attendeeId = NULL \/ qrData.eventId = NULL
            \/ qrData.timestamp = 0
    THEN [isValid |-> FALSE, error |-> "Invalid QR code data"]
    ELSE IF dateNow - qrData.timestamp >= maxAge
    THEN [isValid |-> FALSE, error |-> "QR code has expired"]
    ELSE [isValid |-> TRUE, error |-> NULL]

\* A decoder whose failures all carry the same message.
verifyQRCodeOneMessage(qrData, dateNow) ==
    IF ~qrData.json \/ ~qrData.object
       \/ qrData.attendeeId = NULL \/ qrData.eventId = NULL
       \/ qrData.timestamp = 0
       \/ dateNow - qrData.timestamp > maxAge
    THEN [isValid |-> FALSE, error |-> "Invalid QR code"]
    ELSE [isValid |-> TRUE, error |-> NULL]

\* The whole body is a try block; the catch block returns
\* {isValid: false, error: error.message}.
verifyQRCode(qrData, dateNow) ==
    IF ~qrData.json
    THEN [isValid |-> FALSE, error |-> "Unexpected token"]
    ELSE IF ~qrData.object
    THEN [isValid |-> FALSE, error |-> "Cannot read properties of null"]
    ELSE IF qrData.attendeeId = NULL \/ qrData.eventId = NULL
            \/ qrData.timestamp = 0
    THEN [isValid |-> FALSE, error |-> "Invalid QR code data"]
    ELSE IF dateNow - qrData.timestamp > maxAge
    THEN [isValid |-> FALSE, error |-> "QR code has expired"]
    ELSE [isValid |-> TRUE, error |-> NULL]

\* The codes a scanner may present at the present hour.
QrInputs ==
    {Unparseable, JsonNull}
    \cup {QrPayload(a, e, ts) :
            a \in AttendeeIds \cup {NULL, "att_0"}, e \in EventIds \cup {NULL},
            ts \in {0, DateNow - 25 * HourMs, DateNow - 24 * HourMs - 1,
                    DateNow - 24 * HourMs, DateNow - 23 * HourMs}}

(***************************************************************************)
(* Attendee model                                                          *)
(***************************************************************************)
\* attendees.event_id and events.organizer_id: no modelled handler writes
\* them.
EventOf(a) == IF a = "att_1" THEN "ev_1" ELSE "ev_2"
OrganizerOf(e) == "user_1"

\* registerAttendee inserts every row with status 'registered'.
RegisteredRow == [status |-> "registered", check_in_time |-> 0,
                  checked_in_by |-> NULL]

IdleCreq == [kind |-> "none", pc |-> "idle", att |-> NULL, user |-> NULL,
             seen |-> NULL, ts |-> 0, status |-> NULL, http |-> 0,
             dup |-> FALSE, wrote |-> FALSE, mailFailed |-> FALSE]

CFree(s) ==
    /\ creq[s].pc \in {"idle", "done"}
    /\ \A t \in Slots : creq[t].pc \in {"idle", "done"} => s <= t

CArrive(s) ==
    /\ CFree(s)
    /\ started < MaxRequests
    /\ started' = started + 1

\* The handler has answered: the slot keeps the kind of request, the HTTP
\* status sent, the attendee asked for, the status the handler read,
\* whether it answered isDuplicate, whether its update was applied and
\* whether sending the confirmation failed.
CRespond(r, code) ==
    [IdleCreq EXCEPT !.kind = r.kind, !.pc = "done", !.http = code,
                     !.att = r.att, !.seen = r.seen, !.dup = r.dup,
                     !.wrote = r.wrote, !.mailFailed = r.mailFailed]

\* new Date() is read and time moves on.
CanStamp == now < FirstHour + MaxClock

\* updateAttendee(attendeeId, updates): update(updates).eq('id', attendeeId)
updateAttendee(attendeeId, updates) ==
    [attendees EXCEPT ![attendeeId] =
       [status |-> IF updates.status # NULL THEN updates.status ELSE @.status,
        check_in_time |-> IF updates.check_in_time # 0
                          THEN updates.check_in_time ELSE @.check_in_time,
        checked_in_by |-> IF updates.checked_in_by # NULL
                          THEN updates.checked_in_by ELSE @.checked_in_by]]

\* checkInAttendee(attendeeId): update({status, check_in_time}).eq('id', ...)
checkInAttendee(attendeeId, time) ==
    updateAttendee(attendeeId, [status |-> "checked_in",
                                check_in_time |-> time,
                                checked_in_by |-> NULL])

(***************************************************************************)
(* Scan controller: scanQRCode, manualCheckIn                              *)
(***************************************************************************)
\* A handler without the test of an earlier check-in.
AlreadyCheckedInUntested(row) == FALSE

\* "Check if attendee is already checked in"
AlreadyCheckedIn(row) == row.status = "checked_in"

\* manualCheckIn: "Check if attendee is cancelled"
ManualRefuses(row) == row.status = "cancelled"

\* scanQRCode has no test of the status besides AlreadyCheckedIn.
ScanRefuses(row) == FALSE

\* POST /scan up to the answer of findAttendeeById and findEventById: the
\* code is verified, both rows are read, and the update is issued.
ScanFind(s, qrData, user) ==
    /\ CArrive(s)
    /\ LET qrInfo == verifyQRCode(qrData, DateNow)
           r == [IdleCreq EXCEPT !.kind = "scan", !.att = qrData.attendeeId,
                                 !.user = user]
       IN  IF ~qrInfo.isValid
           THEN /\ creq' = [creq EXCEPT ![s] =
                              CRespond([r EXCEPT !.seen = qrInfo.error], 400)]
                /\ UNCHANGED now
           ELSE IF qrData.attendeeId \notin AttendeeIds
           THEN /\ creq' = [creq EXCEPT ![s] = CRespond(r, 500)]
                /\ UNCHANGED now
           ELSE LET row == attendees[qrData.attendeeId]
                    q == [r EXCEPT !.seen = row.status]
                IN  IF AlreadyCheckedIn(row)
                    THEN /\ creq' = [creq EXCEPT ![s] =
                                       CRespond([q EXCEPT !.dup = TRUE], 200)]
                         /\ UNCHANGED now
                    ELSE IF ScanRefuses(row)
                    THEN /\ creq' = [creq EXCEPT ![s] = CRespond(q, 400)]
                         /\ UNCHANGED now
                    ELSE /\ CanStamp
                         /\ creq' = [creq EXCEPT ![s] =
                                       [q EXCEPT !.pc = "scan_update",
                                                 !.ts = now]]
                         /\ now' = now + 1
    /\ UNCHANGED <<attendees, paymentVars>>

\* POST /scan/attendees/:attendeeId/check-in up to the answer of
\* findAttendeeById.
ManualFind(s, attendeeId, user) ==
    /\ CArrive(s)
    /\ LET r == [IdleCreq EXCEPT !.kind = "manual", !.att = attendeeId,
                                 !.user = user]
       IN  creq' = [creq EXCEPT ![s] =
                      IF attendeeId \notin AttendeeIds
                      THEN CRespond(r, 500)
                      ELSE LET row == attendees[attendeeId]
                               q == [r EXCEPT !.seen = row.status]
                           IN  IF AlreadyCheckedIn(row)
                               THEN CRespond([q EXCEPT !.dup = TRUE], 200)
                               ELSE IF ManualRefuses(row)
                               THEN CRespond(q, 400)
                               ELSE [q EXCEPT !.pc = "manual_event"]]
    /\ UNCHANGED <<attendees, now, paymentVars>>

\* findEventById(attendee.event_id) answers and the update is issued.
ManualEvent(s) ==
    /\ creq[s].pc = "manual_event"
    /\ CanStamp
    /\ creq' = [creq EXCEPT ![s] = [@ EXCEPT !.pc = "manual_update",
                                             !.ts = now]]
    /\ now' = now + 1
    /\ UNCHANGED <<attendees, started, paymentVars>>

\* updateAttendee answers (scan and manual): the row is written, or the
\* database error is thrown and passed to next().
CheckInUpdate(s, dbOk) ==
    /\ creq[s].pc \in {"scan_update", "manual_update"}
    /\ LET r == creq[s]
       IN  IF dbOk
           THEN /\ attendees' = updateAttendee(r.att,
                                  [status |-> "checked_in",
                                   check_in_time |-> r.ts,
                                   checked_in_by |-> r.user])
                /\ creq' = [creq EXCEPT ![s] =
                              [r EXCEPT !.pc = "email", !.wrote = TRUE]]
           ELSE /\ creq' = [creq EXCEPT ![s] = CRespond(r, 500)]
                /\ UNCHANGED attendees
    /\ UNCHANGED <<now, started, paymentVars>>

\* A handler that lets the error of sendCheckInConfirmation reach its
\* outer catch block.
CheckInEmailUncaught(s, sent) ==
    /\ creq[s].pc = "email"
    /\ creq' = [creq EXCEPT ![s] =
                  IF sent THEN CRespond(@, 200)
                  ELSE CRespond([@ EXCEPT !.mailFailed = TRUE], 500)]
    /\ UNCHANGED <<attendees, now, started, paymentVars>>

\* sendCheckInConfirmation answers or throws; the error is caught and
\* logged, and the handler answers 200.
CheckInEmail(s, sent) ==
    /\ creq[s].pc = "email"
    /\ creq' = [creq EXCEPT ![s] =
                  CRespond([@ EXCEPT !.mailFailed = ~sent], 200)]
    /\ UNCHANGED <<attendees, now, started, paymentVars>>

(***************************************************************************)
(* Attendee controller: checkInAttendeeController, updateAttendeeController*)
(***************************************************************************)
\* POST /attendees/:attendeeId/check-in up to the answer of findAttendeeById.
CtlFind(s, attendeeId, user) ==
    /\ CArrive(s)
    /\ LET r == [IdleCreq EXCEPT !.kind = "checkin", !.att = attendeeId,
                                 !.user = user]
       IN  creq' = [creq EXCEPT ![s] =
                      IF attendeeId \notin AttendeeIds
                      THEN CRespond(r, 500)
                      ELSE [r EXCEPT !.pc = "ctl_event",
                                     !.seen = attendees[attendeeId].status]]
    /\ UNCHANGED <<attendees, now, paymentVars>>

\* findEventById answers: ownership, then "Check if already checked in",
\* then checkInAttendee is issued.
CtlEvent(s) ==
    /\ creq[s].pc = "ctl_event"
    /\ LET r == creq[s]
       IN  IF OrganizerOf(EventOf(r.att)) # r.user
           THEN /\ creq' = [creq EXCEPT ![s] = CRespond(r, 403)]
                /\ UNCHANGED now
           ELSE IF r.seen = "checked_in"
           THEN /\ creq' = [creq EXCEPT ![s] = CRespond(r, 400)]
                /\ UNCHANGED now
           ELSE /\ CanStamp
                /\ creq' = [creq EXCEPT ![s] = [r EXCEPT !.pc = "ctl_update",
                                                         !.ts = now]]
                /\ now' = now + 1
    /\ UNCHANGED <<attendees, started, paymentVars>>

\* checkInAttendee answers.
CtlUpdate(s, dbOk) ==
    /\ creq[s].pc = "ctl_update"
    /\ LET r == creq[s]
       IN  IF dbOk
           THEN /\ attendees' = checkInAttendee(r.att, r.ts)
                /\ creq' = [creq EXCEPT ![s] =
                              CRespond([r EXCEPT !.wrote = TRUE], 200)]
           ELSE /\ creq' = [creq EXCEPT ![s] = CRespond(r, 500)]
                /\ UNCHANGED attendees
    /\ UNCHANGED <<now, started, paymentVars>>

\* body('status').optional().isIn([...]): NULL stands for no status.
PatchStatuses == {NULL, "registered", "checked_in", "cancelled"}

\* PATCH /attendees/:attendeeId up to the answer of findAttendeeById.
PatchFind(s, attendeeId, user, status) ==
    /\ CArrive(s)
    /\ LET r == [IdleCreq EXCEPT !.kind = "patch", !.att = attendeeId,
                                 !.user = user, !.status = status]
       IN  creq' = [creq EXCEPT ![s] =
                      IF attendeeId \notin AttendeeIds
                      THEN CRespond(r, 500)
                      ELSE [r EXCEPT !.pc = "patch_event",
                                     !.seen = attendees[attendeeId].status]]
    /\ UNCHANGED <<attendees, now, paymentVars>>

\* findEventById answers: ownership, then updateAttendee(id, req.body) is
\* issued.
PatchEvent(s) ==
    /\ creq[s].pc = "patch_event"
    /\ creq' = [creq EXCEPT ![s] =
                  IF OrganizerOf(EventOf(@.att)) # @.user
                  THEN CRespond(@, 403)
                  ELSE [@ EXCEPT !.pc = "patch_update"]]
    /\ UNCHANGED <<attendees, now, started, paymentVars>>

\* updateAttendee(attendeeId, req.body) answers.
PatchUpdate(s, dbOk) ==
    /\ creq[s].pc = "patch_update"
    /\ LET r == creq[s]
       IN  IF dbOk
           THEN /\ attendees' = updateAttendee(r.att,
                                  [status |-> r.status, check_in_time |-> 0,
                                   checked_in_by |-> NULL])
                /\ creq' = [creq EXCEPT ![s] =
                              CRespond([r EXCEPT !.wrote = TRUE], 200)]
           ELSE /\ creq' = [creq EXCEPT ![s] = CRespond(r, 500)]
                /\ UNCHANGED attendees
    /\ UNCHANGED <<now, started, paymentVars>>

InitAttendees ==
    /\ attendees = [a \in AttendeeIds |-> RegisteredRow]
    /\ creq = [s \in Slots |-> IdleCreq]
    /\ now = FirstHour

(***************************************************************************)
(* Specification of the payment lifecycle                                  *)
(***************************************************************************)
Init ==
    /\ payments = [id \in PayRowIds |-> NoRow]
    /\ req = [s \in Slots |-> IdleReq]
    /\ started = 0
    /\ InitAttendees

Next ==
    \E s \in Slots :
        \/ \E o \in OrderIds, p \in PaymentIds :
             \E sig \in SignatureInputs(o, p) : StartVerify(s, o, p, sig)
        \/ \E ok \in BOOLEAN : PspFetch(s, ok)
        \/ PspFetchTimeout(s)
        \/ \E ok \in BOOLEAN : PspUpdate(s, ok)
        \/ \E ok \in BOOLEAN : PspFailed(s, ok)
        \/ \E e \in WebhookEvents, o \in OrderIds, p \in PaymentIds :
             \E sig \in SignatureInputs(o, p) :
               \E h \in HeaderInputs(WebhookBody(e, o, p, sig)) :
                 StartWebhook(s, WebhookBody(e, o, p, sig), h)
        \/ \E ok \in BOOLEAN : WebhookFailed(s, ok)
        \/ \E found \in BOOLEAN, price \in Prices, ok \in BOOLEAN :
             CreateOrderInsert(s, found, price, ok)
        \/ \E ok \in BOOLEAN : CreateOrderGateway(s, ok)
        \/ \E found \in BOOLEAN, price \in Prices, ok \in BOOLEAN :
             CreateLinkInsert(s, found, price, ok)
        \/ \E ok \in BOOLEAN : CreateLinkGateway(s, ok)
        \/ \E ok \in BOOLEAN : CreateLinkUpdate(s, ok)
        \/ \E id \in PayRowIds, amount \in RefundAmounts, ok \in BOOLEAN :
             RefundRead(s, id, amount, ok)
        \/ \E ok \in BOOLEAN : RefundGateway(s, ok)
        \/ \E ok \in BOOLEAN : RefundUpdate(s, ok)

Spec == Init /\ [][Next]_vars

(***************************************************************************)
(* Confirmations of orders that exist: the client's verify call and the    *)
(* gateway's payment.captured webhook, both genuinely signed, at any       *)
(* interleaving, while the gateway and the database answer.                *)
(***************************************************************************)
HasRow(order_id) == \E id \in Rows : payments[id].order_id = order_id

NextCapture ==
    \E s \in Slots :
        \/ \E price \in Prices : CreateOrderInsert(s, TRUE, price, TRUE)
        \/ \E ok \in BOOLEAN : CreateOrderGateway(s, ok)
        \/ \E o \in OrderIds, p \in PaymentIds :
             /\ HasRow(o)
             /\ StartVerify(s, o, p, createHmac(RAZORPAY_KEY_SECRET, <<o, p>>))
        \/ \E o \in OrderIds, p \in PaymentIds :
             /\ HasRow(o)
             /\ LET body == WebhookBody("payment.captured", o, p,
                                        createHmac(RAZORPAY_KEY_SECRET, <<o, p>>))
                IN  StartWebhook(s, body,
                                 createHmac(RAZORPAY_WEBHOOK_SECRET, body))
        \/ PspFetch(s, TRUE)
        \/ PspUpdate(s, TRUE)

SpecCapture == Init /\ [][NextCapture]_vars

(***************************************************************************)
(* The journey of an order: it is created, the client confirms it with    *)
(* a genuine signature, and refunds are asked for, while the gateway and   *)
(* the database answer every call.  The order id the client sends is the   *)
(* id of the gateway's order, which is what createPaymentOrder hands it    *)
(* and what the gateway signs, or the receipt stored in the row.           *)
(***************************************************************************)
\* order.id of the order razorpay.orders.create answers with: the gateway
\* chooses it, the receipt is another field of the order.
OrderHandle(receipt) == <<"gateway_order", receipt[2]>>

NextJourney ==
    \E s \in Slots :
        \/ \E price \in Prices : CreateOrderInsert(s, TRUE, price, TRUE)
        \/ CreateOrderGateway(s, TRUE)
        \/ \E id \in Rows, p \in PaymentIds :
             \E o \in {payments[id].order_id,
                        OrderHandle(payments[id].order_id)} :
               StartVerify(s, o, p, createHmac(RAZORPAY_KEY_SECRET, <<o, p>>))
        \/ PspFetch(s, TRUE)
        \/ PspUpdate(s, TRUE)
        \/ PspFailed(s, TRUE)
        \/ \E id \in PayRowIds, amount \in RefundAmounts :
             RefundRead(s, id, amount, TRUE)
        \/ RefundGateway(s, TRUE)
        \/ RefundUpdate(s, TRUE)

SpecJourney == Init /\ [][NextJourney]_vars

(***************************************************************************)
(* Payment links: a link is created and sent, and the payment made        *)
(* through it is confirmed by the client or by the gateway's webhook with  *)
(* the gateway's signature, while the gateway and the database answer      *)
(* every call.  The row holds no order_id; the confirmation carries the    *)
(* id of the order the gateway made for the link.                          *)
(***************************************************************************)
\* order_id of the payment made through the link of row id: the gateway
\* chooses it when the link is paid.
LinkOrder(id) == <<"link_order", id>>

NextLink ==
    \E s \in Slots :
        \/ \E price \in Prices : CreateLinkInsert(s, TRUE, price, TRUE)
        \/ CreateLinkGateway(s, TRUE)
        \/ CreateLinkUpdate(s, TRUE)
        \/ \E id \in Rows, p \in PaymentIds :
             /\ payments[id].status = "payment_link_sent"
             /\ StartVerify(s, LinkOrder(id), p,
                            createHmac(RAZORPAY_KEY_SECRET, <<LinkOrder(id), p>>))
        \/ \E id \in Rows, p \in PaymentIds :
             /\ payments[id].status = "payment_link_sent"
             /\ LET body == WebhookBody("payment.captured", LinkOrder(id), p,
                                        createHmac(RAZORPAY_KEY_SECRET,
                                                   <<LinkOrder(id), p>>))
                IN  StartWebhook(s, body,
                                 createHmac(RAZORPAY_WEBHOOK_SECRET, body))
        \/ PspFetch(s, TRUE)
        \/ PspUpdate(s, TRUE)
        \/ PspFailed(s, TRUE)

SpecLink == Init /\ [][NextLink]_vars

(***************************************************************************)
(* Specification of the check-in handlers                                  *)
(***************************************************************************)
NextCheckIn ==
    \E s \in Slots :
        \/ \E qrData \in QrInputs, u \in Users : ScanFind(s, qrData, u)
        \/ \E a \in AttendeeIds \cup {"att_0"}, u \in Users :
             ManualFind(s, a, u)
        \/ ManualEvent(s)
        \/ \E ok \in BOOLEAN : CheckInUpdate(s, ok)
        \/ \E sent \in BOOLEAN : CheckInEmail(s, sent)
        \/ \E a \in AttendeeIds \cup {"att_0"}, u \in Users : CtlFind(s, a, u)
        \/ CtlEvent(s)
        \/ \E ok \in BOOLEAN : CtlUpdate(s, ok)
        \/ \E a \in AttendeeIds \cup {"att_0"}, u \in Users,
               st \in PatchStatuses : PatchFind(s, a, u, st)
        \/ PatchEvent(s)
        \/ \E ok \in BOOLEAN : PatchUpdate(s, ok)

SpecCheckIn == Init /\ [][NextCheckIn]_vars

(***************************************************************************)
(* The QR scan path alone, with the attendee update that sets the status  *)
(* a scan may find.                                                        *)
(***************************************************************************)
NextScan ==
    \E s \in Slots :
        \/ \E qrData \in QrInputs, u \in Users : ScanFind(s, qrData, u)
        \/ \E ok \in BOOLEAN : CheckInUpdate(s, ok)
        \/ \E sent \in BOOLEAN : CheckInEmail(s, sent)
        \/ \E a \in AttendeeIds, st \in PatchStatuses :
             PatchFind(s, a, OrganizerOf(EventOf(a)), st)
        \/ PatchEvent(s)
        \/ \E ok \in BOOLEAN : PatchUpdate(s, ok)

SpecScan == Init /\ [][NextScan]_vars

(***************************************************************************)
(* Properties of the payments ledger                                       *)
(***************************************************************************)
PspKinds == {"verify", "payment.captured"}

\* The edges of the status graph, the direct capture of a created order
\* included.
StatusEdges ==
    { <<"created", "payment_link_created">>,
      <<"payment_link_created", "payment_link_sent">>,
      <<"payment_link_sent", "captured">>,
      <<"created", "captured">>,
      <<"captured", "refunded">>,
      <<"created", "failed">>,
      <<"payment_link_sent", "failed">> }

\* C1: every change of a payment row's status, whatever operation makes it,
\* is an edge of the status graph.
C1_OnlyGraphEdges ==
    [][\A id \in PayRowIds :
         (payments[id] # NoRow /\ payments'[id].status # payments[id].status)
         => <<payments[id].status, payments'[id].status>> \in StatusEdges]_vars

C4_TamperLeavesRow ==
    [][\A s \in Slots :
         ( /\ req[s].pc = "psp_failed"
           /\ req[s].err = ErrInvalidSignature
           /\ req'[s] # req[s] )
         => \A id \in Rows :
              payments[id].order_id = req[s].order_id
              => /\ payments'[id].status = payments[id].status
                 /\ payments'[id].error_message = payments[id].error_message
                 /\ payments'[id].payment_id = payments[id].payment_id]_vars

\* C5: a row whose status is refunded or failed is never set to captured.
C5_NoResurrection ==
    [][\A id \in PayRowIds :
         (payments[id] # NoRow /\ payments[id].status \in {"refunded", "failed"})
         => payments'[id].status # "captured"]_vars

\* C10: a refund request for a row whose status is not captured is answered
\* at once with an error (400, or 404 when the select itself failed),
\* without the gateway's refund having been asked for, and the table is
\* left as it is.
C10_RefundGated ==
    [][\A s \in Slots :
         ( /\ Free(s)
           /\ started' # started
           /\ req'[s].kind = "refund"
           /\ payments[req'[s].row] # NoRow
           /\ payments[req'[s].row].status # "captured" )
         => /\ req'[s].pc = "done"
            /\ req'[s].http \in {400, 404}
            /\ ~req'[s].gw
            /\ payments' = payments]_vars

\* C10: a refund has been refused on a row that an earlier refund had set
\* to refunded.
C10_SecondRefundRefused ==
    \E s \in Slots :
        /\ req[s].pc = "done" /\ req[s].kind = "refund"
        /\ req[s].http = 400 /\ req[s].seen = "refunded"
        /\ payments[req[s].row].status = "refunded"
        /\ payments[req[s].row].refund_id # RefundId(NULL)

\* C11: the verify call that carries the gateway's order id of a created
\* payment, a payment id and the gateway's signature for them sets that
\* payment's row to captured with payment_id filled in.
C11_VerifyCapturesOrder ==
    [][\A s \in Slots : \A id \in Rows :
         ( /\ req[s].pc = "psp_update"
           /\ req'[s] # req[s]
           /\ req[s].kind = "verify"
           /\ req[s].order_id = OrderHandle(payments[id].order_id)
           /\ payments[id].status = "created" )
         => /\ payments'[id].status = "captured"
            /\ payments'[id].payment_id = req[s].payment_id]_vars

\* C12: a webhook whose header is not the HMAC of its body under the
\* webhook secret is answered 401 at once, whatever its event, and the
\* table is left as it is.
C12_WebhookTrustBoundary ==
    [][\A s \in Slots :
         (Free(s) /\ started' # started /\ req'[s].kind \in WebhookEvents)
         => \A o \in OrderIds :
              \A sig \in SignatureInputs(o, req'[s].payment_id) :
                LET body == WebhookBody(req'[s].kind, o, req'[s].payment_id,
                                        sig)
                    h == createHmac(ForgedKey, body)
                IN  StartWebhook(s, body, h)
                    => /\ req'[s].pc = "done"
                       /\ req'[s].http = 401
                       /\ payments' = payments]_vars

\* C12: a payment.failed webhook with a foreign header has been answered
\* 401 while the payment it names is captured.
C12_ForgedWebhookRefused ==
    \E s \in Slots : \E id \in Rows :
        /\ req[s].pc = "done" /\ req[s].kind = "payment.failed"
        /\ req[s].http = 401
        /\ payments[id].payment_id = req[s].payment_id
        /\ payments[id].status = "captured"

C14_WebhookAlwaysAcknowledged ==
    \A s \in Slots :
        (req[s].pc = "done" /\ req[s].kind \in WebhookEvents)
        => req[s].http \in {200, 401}

\* C18: no step changes amount, currency, event_id, attendee_id or
\* ticket_type_id of a row that exists, or removes the row.
C18_WriteOnceColumns ==
    [][\A id \in PayRowIds :
         payments[id] # NoRow
         => /\ payments'[id] # NoRow
            /\ payments'[id].amount = payments[id].amount
            /\ payments'[id].currency = payments[id].currency
            /\ payments'[id].event_id = payments[id].event_id
            /\ payments'[id].attendee_id = payments[id].attendee_id
            /\ payments'[id].ticket_type_id = payments[id].ticket_type_id]_vars

\* C18: an order has been captured and refunded and a payment link has
\* been sent; the rows hold the price they were inserted with.
C18_RowsAfterEveryUpdate ==
    \E id, lk \in Rows :
        /\ payments[id].status = "refunded"
        /\ payments[id].refund_id # RefundId(NULL)
        /\ payments[id].amount \in Prices
        /\ payments[lk].status = "payment_link_sent"
        /\ payments[lk].amount \in Prices

C20_TimeoutDoesNotFail ==
    [][\A s \in Slots :
         ( /\ req[s].pc = "psp_failed"
           /\ req[s].err = ErrGatewayTimeout
           /\ req'[s] # req[s] )
         => \A id \in Rows :
              (payments[id].order_id = req[s].order_id
               /\ payments[id].status # "failed")
              => payments'[id].status # "failed"]_vars

C22_LinkPaymentCaptured ==
    [][\A s \in Slots : \A id \in Rows :
         ( /\ req[s].pc = "psp_update"
           /\ req'[s] # req[s]
           /\ req[s].order_id = LinkOrder(id)
           /\ payments[id].status = "payment_link_sent" )
         => /\ payments'[id].status = "captured"
            /\ payments'[id].payment_id = req[s].payment_id]_vars

\* C23: every row enters the table with status created, a row becomes
\* payment_link_created only from created, and payment_link_sent only from
\* payment_link_created.
C23_LinkStatusOrder ==
    [][\A id \in PayRowIds :
         /\ (payments[id] = NoRow /\ payments'[id] # NoRow)
            => payments'[id].status = "created"
         /\ (payments'[id] # NoRow /\ payments[id] # payments'[id]
             /\ payments'[id].status = "payment_link_created")
            => (payments[id] # NoRow /\ payments[id].status = "created")
         /\ (payments[id] # NoRow /\ payments'[id] # NoRow
             /\ payments[id].status # "payment_link_sent"
             /\ payments'[id].status = "payment_link_sent")
            => payments[id].status = "payment_link_created"]_vars

\* C24: every row carries an order_id, and no two rows carry the same one.
C24_OrderIdUnique ==
    /\ \A id \in Rows : payments[id].order_id # NoOrder
    /\ \A i, j \in Rows :
         payments[i].order_id = payments[j].order_id => i = j

\* C25: a payment that is created, payment_link_created or
\* payment_link_sent has no payment_id, and a captured payment has one.
C25_PaymentIdOnCapture ==
    \A id \in Rows :
        /\ payments[id].status
              \in {"created", "payment_link_created", "payment_link_sent"}
           => payments[id].payment_id = NULL
        /\ payments[id].status = "captured"
           => payments[id].payment_id # NULL

\* A captured payment beside one whose link was sent.
C25_CapturedBesideLink ==
    \E i, j \in Rows :
        /\ payments[i].status = "captured"
        /\ payments[i].payment_id \in PaymentIds
        /\ payments[j].status = "payment_link_sent"
        /\ payments[j].payment_id = NULL
        /\ \E s \in Slots : /\ req[s].pc = "done"
                             /\ req[s].kind \in PspKinds
                             /\ req[s].http = 200
                             /\ req[s].payment_id = payments[i].payment_id

\* C26: error_message is set on failed payments only, and refund_id on
\* refunded payments only.
C26_ErrorAndRefundColumns ==
    \A id \in Rows :
        /\ payments[id].error_message # NULL => payments[id].status = "failed"
        /\ payments[id].refund_id # RefundId(NULL)
           => payments[id].status = "refunded"

\* C27: when the gateway refuses the refund, the refund call fails with an
\* error and no row changes: a payment that is captured without refund_id
\* stays so.
C27_FailedRefundLeavesRow ==
    [][\A s \in Slots :
         RefundGateway(s, FALSE)
         => /\ req'[s].pc = "done"
            /\ req'[s].http = 500
            /\ payments' = payments
            /\ \A id \in Rows :
                 ( /\ payments[id].payment_id = req[s].payment_id
                   /\ payments[id].status = "captured"
                   /\ payments[id].refund_id = RefundId(NULL) )
                 => /\ payments'[id].status = "captured"
                    /\ payments'[id].refund_id = RefundId(NULL)]_vars

\* C27: a refund the gateway refused has been answered 500 and its
\* payment is captured without refund_id.
C27_RefusedRefundAnswered ==
    \E s \in Slots : \E id \in Rows :
        /\ req[s].pc = "done" /\ req[s].kind = "refund"
        /\ req[s].http = 500 /\ ~req[s].gw
        /\ req[s].seen = "captured"
        /\ payments[id].payment_id = req[s].payment_id
        /\ payments[id].status = "captured"
        /\ payments[id].refund_id = RefundId(NULL)

C29_VerifyPaymentContract ==
    \A secret \in KeySecretSettings :
      \A s \in Slots :
        (req[s].kind \in PspKinds /\ req[s].pc # "done")
        => LET o == req[s].order_id
               p == req[s].payment_id
               sig == req[s].signature
               r == verifyPaymentUnder(secret, o, p, sig)
           IN  IF secret = NULL
               THEN r.threw
               ELSE /\ ~r.threw
                    /\ r.value = (sig = createHmac(secret, <<o, p>>))

\* C31: of two refund requests for the same payment at most one gets as
\* far as the gateway's refund call while the other has one pending or
\* answered with a refund.
C31_OneGatewayRefund ==
    \A s, t \in Slots :
        ( /\ s # t
          /\ req[s].kind = "refund" /\ req[t].kind = "refund"
          /\ req[s].row = req[t].row
          /\ req[s].pc \in {"rf_gateway", "rf_update"} \/ req[s].gw )
        => ~(req[t].pc \in {"rf_gateway", "rf_update"} \/ req[t].gw)

\* C32: a payment_id that is set is not replaced by another.
C32_PaymentIdWriteOnce ==
    [][\A id \in Rows :
         payments[id].payment_id # NULL
         => payments'[id].payment_id = payments[id].payment_id]_vars

\* C34: when a refund is answered with success, the payment it refunded
\* is refunded and carries the refund's id, also when the update after the
\* gateway's refund failed.
C34_RefundSuccessIsRefunded ==
    [][\A s \in Slots :
         ( /\ req[s].kind = "refund" /\ req[s].pc # "done"
           /\ req'[s].pc = "done" /\ req'[s].http = 200 )
         => /\ payments'[req[s].row].status = "refunded"
            /\ payments'[req[s].row].refund_id = RefundId(req[s].payment_id)]_vars

\* C35: when the gateway call of a request that creates an order or a
\* payment link fails and the request is answered with an error, the row
\* the request inserted is not left created or payment_link_created.
C35_FailedCreateLeavesNoPendingRow ==
    [][\A s \in Slots :
         ( /\ req[s].pc \in {"co_gateway", "cl_gateway"}
           /\ req'[s].pc = "done" /\ req'[s].http >= 400 )
         => \/ payments'[req[s].row] = NoRow
            \/ payments'[req[s].row].status
                 \notin {"created", "payment_link_created"}]_vars

\* C37: no step of a verification call or of a payment.captured webhook
\* for an order, succeeding or failing, changes a row of another order, and
\* none inserts a row.
C37_OtherOrdersUntouched ==
    [][\A s \in Slots :
         /\ (Free(s) /\ req'[s] # req[s] /\ req'[s].kind \in PspKinds)
            => payments' = payments
         /\ ( /\ req[s].pc \in {"psp_fetch", "psp_update", "psp_failed"}
              /\ req'[s] # req[s] )
            => \A id \in PayRowIds :
                 (payments[id] = NoRow
                  \/ payments[id].order_id # req[s].order_id)
                 => payments'[id] = payments[id]]_vars

\* C37: one order has been captured by its confirmation and the order
\* beside it is still created.
C37_CapturedBesideCreated ==
    \E s \in Slots : \E i, j \in Rows :
        /\ req[s].pc = "done" /\ req[s].kind \in PspKinds
        /\ req[s].http = 200 /\ req[s].row = i
        /\ payments[i].status = "captured"
        /\ payments[j].status = "created"
        /\ payments[j].order_id # payments[i].order_id

\* C38: while no row carries the order id of a confirmation with a
\* genuine signature, no step of the confirmation inserts or changes a
\* row, the capture update leads to the catch block, and the answer is an
\* error.
C38_UnknownOrderReportsError ==
    [][\A s \in Slots :
         ( /\ req[s].pc \in {"psp_fetch", "psp_update", "psp_failed"}
           /\ req'[s] # req[s]
           /\ verifyPayment(req[s].order_id, req[s].payment_id,
                            req[s].signature)
           /\ \A id \in Rows : payments[id].order_id # req[s].order_id )
         => /\ payments' = payments
            /\ req[s].pc = "psp_update" => req'[s].pc = "psp_failed"
            /\ req'[s].pc = "done" => req'[s].http >= 400]_vars

\* C38: the capture update of a genuinely signed confirmation has found
\* no row of its order, while the table holds a row of another order.
C38_UnknownOrderInCatch ==
    \E s \in Slots :
        /\ req[s].pc = "psp_failed" /\ req[s].err = ErrNoSingleRow
        /\ verifyPayment(req[s].order_id, req[s].payment_id, req[s].signature)
        /\ \A id \in Rows : payments[id].order_id # req[s].order_id
        /\ \E id \in Rows : payments[id].status = "created"

(***************************************************************************)
(* Properties of check-in                                                  *)
(***************************************************************************)
CheckInKinds == {"scan", "manual", "checkin"}
UpdatePcs == {"scan_update", "manual_update", "ctl_update", "email"}

\* C6: a check-in handler (QR scan, manual check-in, attendee controller)
\* that read the status cancelled never issues its update and answers with
\* an error.
C6_CancelledRefused ==
    \A s \in Slots :
        (creq[s].kind \in CheckInKinds /\ creq[s].seen = "cancelled")
        => /\ creq[s].pc \notin UpdatePcs
           /\ ~creq[s].wrote
           /\ creq[s].pc = "done" => creq[s].http >= 400

\* C7: a QR scan or manual check-in that arrives for an attendee already
\* checked in answers 200 with isDuplicate at once, writes nothing, and
\* leaves the attendee's row, check_in_time included, as it is.
C7_DuplicateIsSuccess ==
    [][\A s \in Slots :
         ( /\ CFree(s)
           /\ started' # started
           /\ creq'[s].kind \in {"scan", "manual"}
           /\ creq'[s].att \in AttendeeIds
           /\ creq'[s].seen \notin {"Invalid QR code data", "QR code has expired"}
           /\ attendees[creq'[s].att].status = "checked_in" )
         => /\ creq'[s].pc = "done"
            /\ creq'[s].http = 200
            /\ creq'[s].dup
            /\ ~creq'[s].wrote
            /\ attendees' = attendees]_vars

\* C7: one check-in has written the row and a later scan or manual check-in
\* of the same attendee has answered isDuplicate; the row holds the time
\* the first one stamped.
C7_SecondCallDuplicate ==
    \E s, t \in Slots :
        /\ s # t
        /\ creq[s].pc = "done" /\ creq[s].kind \in {"scan", "manual"}
        /\ creq[s].http = 200 /\ creq[s].wrote /\ ~creq[s].dup
        /\ creq[t].pc = "done" /\ creq[t].kind \in {"scan", "manual"}
        /\ creq[t].http = 200 /\ creq[t].dup /\ ~creq[t].wrote
        /\ creq[t].att = creq[s].att
        /\ attendees[creq[s].att].status = "checked_in"
        /\ attendees[creq[s].att].check_in_time >= FirstHour

\* C8: the update of a QR scan or manual check-in that answers when the
\* attendee is already checked in leaves check_in_time and checked_in_by
\* as the first writer set them.
C8_LoserDoesNotOverwrite ==
    [][\A s \in Slots :
         ( /\ creq[s].pc \in {"scan_update", "manual_update"}
           /\ creq'[s] # creq[s]
           /\ attendees[creq[s].att].status = "checked_in" )
         => /\ attendees'[creq[s].att].check_in_time
                 = attendees[creq[s].att].check_in_time
            /\ attendees'[creq[s].att].checked_in_by
                 = attendees[creq[s].att].checked_in_by]_vars

\* C9: once an attendee's status is checked_in, no step changes the status
\* or check_in_time.
C9_CheckedInTerminal ==
    [][\A a \in AttendeeIds :
         attendees[a].status = "checked_in"
         => /\ attendees'[a].status = "checked_in"
            /\ attendees'[a].check_in_time = attendees[a].check_in_time]_vars

\* The codes that carry attendeeId, eventId and timestamp.
CompleteQrInputs ==
    {q \in QrInputs : q.json /\ q.attendeeId # NULL /\ q.eventId # NULL
                       /\ q.timestamp # 0}

\* C15: of the complete codes, verifyQRCode refuses as expired exactly those
\* older than 24 hours: a code of 23 hours and one of exactly 24 hours are
\* accepted, one of 24 hours and a millisecond and one of 25 hours are not.
C15_ExpiryWindow ==
    /\ \A q \in CompleteQrInputs :
         /\ verifyQRCode(q, DateNow).isValid
              <=> (DateNow - q.timestamp <= 24 * HourMs)
         /\ ~verifyQRCode(q, DateNow).isValid
              => verifyQRCode(q, DateNow).error = "QR code has expired"
    /\ \A a \in AttendeeIds, e \in EventIds :
         /\ verifyQRCode(QrPayload(a, e, DateNow - 23 * HourMs), DateNow).isValid
         /\ verifyQRCode(QrPayload(a, e, DateNow - 24 * HourMs), DateNow).isValid
         /\ ~verifyQRCode(QrPayload(a, e, DateNow - 24 * HourMs - 1),
                          DateNow).isValid
         /\ ~verifyQRCode(QrPayload(a, e, DateNow - 25 * HourMs), DateNow).isValid

\* C15: one scan has been refused for an expired code and another scan's
\* code has been accepted and its check-in written.
C15_ExpiredAndFreshScanned ==
    \E s, t \in Slots :
        /\ creq[s].kind = "scan" /\ creq[s].pc = "done"
        /\ creq[s].seen = "QR code has expired" /\ creq[s].http = 400
        /\ creq[t].kind = "scan" /\ creq[t].wrote

AttendeeStatuses == {"registered", "checked_in", "cancelled"}

\* C16: a scan whose code does not parse, lacks attendeeId, eventId or
\* timestamp, or is older than 24 hours is answered 400 at once, having
\* read no attendee's status, and the attendees are left as they are.
C16_DecodeFailsFirst ==
    [][\A s \in Slots :
         (CFree(s) /\ started' # started /\ creq'[s].kind = "scan")
         => \A q \in {x \in QrInputs : x.attendeeId = creq'[s].att} :
              \A u \in Users :
                ( /\ ScanFind(s, q, u)
                  /\ \/ ~q.json
                     \/ q.attendeeId = NULL \/ q.eventId = NULL
                     \/ q.timestamp = 0
                     \/ DateNow - q.timestamp > 24 * HourMs )
                => /\ creq'[s].pc = "done"
                   /\ creq'[s].http = 400
                   /\ creq'[s].seen \notin AttendeeStatuses
                   /\ attendees' = attendees]_vars

\* C16: a scan of a registered attendee's expired code has been answered
\* 400 and the attendee is still registered.
C16_ExpiredScanRefused ==
    \E s \in Slots :
        /\ creq[s].pc = "done" /\ creq[s].kind = "scan"
        /\ creq[s].http = 400 /\ creq[s].seen = "QR code has expired"
        /\ creq[s].att \in AttendeeIds
        /\ attendees[creq[s].att].status = "registered"

\* C17: when sendCheckInConfirmation throws after the update of a QR scan
\* or manual check-in, the handler still answers 200 and the attendees are
\* left as the update wrote them.
C17_MailFailureIsNotFailure ==
    [][\A s \in Slots :
         CheckInEmail(s, FALSE)
         => /\ creq[s].kind \in {"scan", "manual"}
            /\ creq[s].wrote
            /\ creq'[s].pc = "done"
            /\ creq'[s].http = 200
            /\ attendees' = attendees]_vars

\* C17: a manual check-in whose confirmation could not be sent has been
\* answered 200 and the attendee is checked in with the time it stamped.
C17_CheckedInWithoutMail ==
    \E s \in Slots :
        /\ creq[s].pc = "done" /\ creq[s].kind = "manual"
        /\ creq[s].mailFailed /\ creq[s].wrote /\ creq[s].http = 200
        /\ attendees[creq[s].att].status = "checked_in"
        /\ attendees[creq[s].att].check_in_time >= FirstHour

\* C30: verifyQRCode returns a result with isValid for every code, a text
\* that does not parse, JSON null and an incomplete, an expired and a valid
\* code included; a refused code carries an error, and the error is
\* "QR code has expired" exactly for the complete codes older than maxAge.
C30_DecodeNeverThrows ==
    \A q \in QrInputs :
        LET r == verifyQRCode(q, DateNow)
            complete == /\ q.json /\ q.object
                        /\ q.attendeeId # NULL /\ q.eventId # NULL
                        /\ q.timestamp # 0
        IN  /\ r.isValid \in BOOLEAN
            /\ r.isValid => r.error = NULL
            /\ ~r.isValid
               => /\ r.error # NULL
                  /\ r.error = "QR code has expired"
                       <=> (complete /\ DateNow - q.timestamp > maxAge)
            /\ ~complete => (~r.isValid /\ r.error # "QR code has expired")

\* C30: a scan of an expired code and a scan of JSON null have both been
\* refused, each with its own message.
C30_ExpiredAndBadDataScanned ==
    \E s, t \in Slots :
        /\ creq[s].pc = "done" /\ creq[s].kind = "scan"
        /\ creq[s].http = 400 /\ creq[s].seen = "QR code has expired"
        /\ creq[t].pc = "done" /\ creq[t].kind = "scan"
        /\ creq[t].http = 400
        /\ creq[t].seen = "Cannot read properties of null"

\* C33: a scan goes on to the check-in update only when the eventId of its
\* code is the event of the attendee the code names.
C33_ScanForTokenEvent ==
    [][\A s \in Slots :
         (CFree(s) /\ started' # started /\ creq'[s].kind = "scan"
          /\ creq'[s].pc = "scan_update")
         => \A q \in {x \in QrInputs : x.attendeeId = creq'[s].att} :
              \A u \in Users :
                ScanFind(s, q, u) => q.eventId = EventOf(q.attendeeId)]_vars

\* C36: an attendee that is checked_in has a check_in_time.
C36_CheckedInHasTime ==
    \A a \in AttendeeIds :
        attendees[a].status = "checked_in" => attendees[a].check_in_time # 0

==========================================================================
